---- MODULE Spec2Model ----
(***************************************************************************)
(* Model of make_accessible.py: the text-presence detector                 *)
(* (has_extractable_text), the per-document OCR writer (ocr_pdf) and the   *)
(* batch driver (process_directory), run against a small file system.      *)
(***************************************************************************)
EXTENDS Integers, Sequences, FiniteSets, TLC

\* ------------------------------------------------------------------------
\* Bounds of the model
\* ------------------------------------------------------------------------
NDocs == 2
MaxPages == 2
MaxRuns == 2

\* min_chars: int = 20
DefaultMinChars == 20

None == 0

\* ------------------------------------------------------------------------
\* Text and whitespace trimming (str.strip)
\* ------------------------------------------------------------------------
Rep(c, n) == [i \in 1..n |-> c]

IsSpace(c) == c \in {" ", "\n"}

RECURSIVE LStrip(_)
LStrip(s) == IF s # <<>> /\ IsSpace(Head(s)) THEN LStrip(Tail(s)) ELSE s

RECURSIVE RStrip(_)
RStrip(s) ==
    IF s # <<>> /\ IsSpace(s[Len(s)]) THEN RStrip(SubSeq(s, 1, Len(s) - 1)) ELSE s

Strip(s) == RStrip(LStrip(s))

\* ------------------------------------------------------------------------
\* File contents.  A page carries what page.extract_text() does on it
\* (ext.kind: "text" returns ext.s, "none" returns None, "raise" raises)
\* and the picture the rasterizer renders from it (img): which page of which
\* original it shows (of) and the writing visible on it (ink).
\* ------------------------------------------------------------------------
ExtText(s) == [kind |-> "text", s |-> s]
ExtNone == [kind |-> "none", s |-> <<>>]
ExtRaise == [kind |-> "raise", s |-> <<>>]

Page(ext, img) == [ext |-> ext, img |-> img]
Image(n, p, ink) == [of |-> <<n, p>>, ink |-> ink]

Absent == [kind |-> "absent", openable |-> FALSE, pages |-> <<>>]
EmptyFile == [kind |-> "empty", openable |-> FALSE, pages |-> <<>>]
Pdf(openable, pages) == [kind |-> "pdf", openable |-> openable, pages |-> pages]
Partial(pages) == [kind |-> "partial", openable |-> FALSE, pages |-> pages]

\* exactly min_chars letters once trimmed
LongText == <<" ">> \o Rep("a", DefaultMinChars) \o <<"\n">>
\* min_chars characters and more, but fewer once trimmed
PaddedShort == <<" ", " ">> \o Rep("a", DefaultMinChars - 1) \o <<" ", "\n">>

\* ------------------------------------------------------------------------
\* has_extractable_text
\* ------------------------------------------------------------------------
\* the for loop over pdf.pages: "true" (return True), "false" (loop ran out),
\* "except" (extract_text raised, control left the loop for the handler)
RECURSIVE ScanPages(_, _, _)
ScanPages(pages, i, min_chars) ==
    IF i > Len(pages) THEN "false"
    ELSE IF pages[i].ext.kind = "raise" THEN "except"
    ELSE LET text == IF pages[i].ext.kind = "none" THEN <<>> ELSE pages[i].ext.s
         IN  IF Len(Strip(text)) >= min_chars THEN "true"
             ELSE ScanPages(pages, i + 1, min_chars)

has_extractable_text(doc, min_chars) ==
    IF ~doc.openable THEN FALSE
    ELSE ScanPages(doc.pages, 1, min_chars) = "true"

\* ------------------------------------------------------------------------
\* The file system and the state of one run of process_directory
\* ------------------------------------------------------------------------
VARIABLES
    output_dir,  \* "none" (in place), "out" (another directory), "src" (the scanned one)
    dry_run,
    missing,     \* the dependency that is not installed, or "nothing"
    fs,          \* <<directory, name>> -> file content
    fs0,         \* fs when the current run started
    outDirMade,  \* output_dir.mkdir was called in this run
    runs,        \* runs of the program started so far
    pc,
    pdf_files, idx,
    needs_ocr, already_ok, errors,
    k, tmp,
    images, writer, pg,
    report,
    raised,      \* history: <<pdf, what, page>> of every exception raised in the loop
    det_doc, det_min_chars, det_result,  \* one call of has_extractable_text
    \* one call of ocr_pdf seen from its page loop: sizes and text layout
    args_dpi,    \* --dpi as parsed by main
    dpi,         \* the dpi parameter of ocr_pdf (0: not called yet)
    raster_dpi,  \* the dpi convert_from_path was called with
    n_images, page_i,
    lpc,
    img_size,    \* image.size, pixels
    pagesize,    \* pagesize of the overlay canvas, <<pt_w, pt_h>>
    lines, line_i,
    cur_y,       \* y
    draws,       \* the drawString calls made on the canvas, in order
    resolution   \* resolution the image page was saved with

vars == <<output_dir, dry_run, missing, fs, fs0, outDirMade, runs, pc, pdf_files,
          idx, needs_ocr, already_ok, errors, k, tmp, images, writer, pg, report,
          raised, det_doc, det_min_chars, det_result, args_dpi, dpi,
          raster_dpi, n_images, page_i, lpc, img_size, pagesize, lines, line_i,
          cur_y, draws, resolution>>

detvars == <<det_doc, det_min_chars, det_result>>
layvars == <<args_dpi, dpi, raster_dpi, n_images, page_i, lpc, img_size, pagesize,
             lines, line_i, cur_y, draws, resolution>>
env == <<output_dir, dry_run, missing, detvars, layvars>>

DocNames == 1..NDocs
\* names mkstemp hands out ("tmpXXXX.tmp.pdf"), at most one leaked per run
TmpNames == {-j : j \in 1..MaxRuns}
Names == DocNames \cup TmpNames
Paths == {"src", "out"} \X Names

Src(n) == <<"src", n>>
Exists(f, p) == f[p].kind # "absent"

RECURSIVE SortedSeq(_)
SortedSeq(S) ==
    IF S = {} THEN <<>>
    ELSE LET m == CHOOSE x \in S : \A y \in S : x <= y
         IN  <<m>> \o SortedSeq(S \ {m})

\* sorted(directory.glob("*.pdf"))
Glob(f) == SortedSeq({n \in Names : Exists(f, Src(n))})

Range(s) == {s[i] : i \in 1..Len(s)}

\* ------------------------------------------------------------------------
\* Initial documents
\* ------------------------------------------------------------------------
\* a scan whose first page shows writing and whose other pages are blank
Scanned(n, np) ==
    Pdf(TRUE, [p \in 1..np |->
                 Page(ExtNone, Image(n, p, IF p = 1 THEN LongText ELSE <<>>))])
\* a scan of a blank sheet
BlankScan(n) == Pdf(TRUE, <<Page(ExtNone, Image(n, 1, <<>>))>>)
\* a file pdfplumber cannot open
Unreadable(n) == Pdf(FALSE, <<Page(ExtNone, Image(n, 1, LongText))>>)
\* a document with a text layer reaching min_chars on its second page
TextDoc(n) ==
    Pdf(TRUE, <<Page(ExtText(PaddedShort), Image(n, 1, PaddedShort)),
                Page(ExtText(LongText), Image(n, 2, LongText))>>)
\* a document whose first page makes extract_text raise
BadThenText(n) ==
    Pdf(TRUE, <<Page(ExtRaise, Image(n, 1, LongText)),
                Page(ExtText(LongText), Image(n, 2, LongText))>>)

\* a file of an earlier job already lying in the output directory
Stale == Pdf(TRUE, <<Page(ExtText(LongText), Image(0, 0, LongText))>>)

DocKinds == {<<"scanned", np>> : np \in 1..MaxPages}
                \cup {<<"blank", 1>>, <<"unreadable", 1>>, <<"text", 2>>,
                      <<"badthentext", 2>>}

MakeDoc(kind, n) ==
    CASE kind[1] = "scanned" -> Scanned(n, kind[2])
      [] kind[1] = "blank" -> BlankScan(n)
      [] kind[1] = "unreadable" -> Unreadable(n)
      [] kind[1] = "text" -> TextDoc(n)
      [] OTHER -> BadThenText(n)

\* --dpi: default=300
DefaultDpi == 300

\* the locals of ocr_pdf's page loop before the call
LayIdle ==
    /\ dpi = 0
    /\ raster_dpi = 0
    /\ n_images = 0
    /\ page_i = 1
    /\ lpc = "idle"
    /\ img_size = <<0, 0>>
    /\ pagesize = <<<<0, 1>>, <<0, 1>>>>
    /\ lines = <<>>
    /\ line_i = 1
    /\ cur_y = <<0, 1>>
    /\ draws = <<>>
    /\ resolution = 0

\* the state of a run before its first statement
RunInit ==
    /\ outDirMade = FALSE
    /\ pc = "start"
    /\ pdf_files = <<>>
    /\ idx = 1
    /\ needs_ocr = <<>>
    /\ already_ok = <<>>
    /\ errors = <<>>
    /\ k = 1
    /\ tmp = None
    /\ images = <<>>
    /\ writer = <<>>
    /\ pg = 1
    /\ report = "none"
    /\ raised = {}

Init ==
    /\ output_dir \in {"none", "out", "src"}
    /\ dry_run \in BOOLEAN
    /\ missing \in {"nothing", "pdfplumber", "pytesseract", "pypdf"}
    /\ \E nd \in 0..NDocs, kinds \in [DocNames -> DocKinds], old \in {Absent, Stale} :
          fs = [p \in Paths |->
                  IF p[1] = "src" /\ p[2] \in 1..nd THEN MakeDoc(kinds[p[2]], p[2])
                  ELSE IF p[1] = "out" /\ p[2] \in DocNames /\ output_dir = "out"
                       THEN old
                       ELSE Absent]
    /\ fs0 = fs
    /\ runs = 1
    /\ RunInit
    /\ det_doc = Absent
    /\ det_min_chars = DefaultMinChars
    /\ det_result = "none"
    /\ args_dpi = DefaultDpi
    /\ LayIdle

\* ------------------------------------------------------------------------
\* process_directory: glob and scan phase
\* ------------------------------------------------------------------------
\* pdf_files = sorted(directory.glob("*.pdf")); if not pdf_files: return
Start ==
    /\ pc = "start"
    /\ pdf_files' = Glob(fs)
    /\ IF Glob(fs) = <<>>
       THEN pc' = "done" /\ report' = "no_pdfs"
       ELSE pc' = "scan" /\ report' = report
    /\ UNCHANGED <<env, fs, fs0, outDirMade, runs, idx, needs_ocr, already_ok,
                   errors, k, tmp, images, writer, pg, raised>>

\* ScanDoc with the two branches of the classification exchanged
ScanDocSwapped ==
    /\ pc = "scan"
    /\ idx <= Len(pdf_files)
    /\ LET pdf == pdf_files[idx] IN
       IF missing = "pdfplumber"
       THEN /\ pc' = "exited"
            /\ UNCHANGED <<idx, needs_ocr, already_ok>>
       ELSE /\ IF has_extractable_text(fs[Src(pdf)], DefaultMinChars)
               THEN needs_ocr' = Append(needs_ocr, pdf) /\ already_ok' = already_ok
               ELSE already_ok' = Append(already_ok, pdf) /\ needs_ocr' = needs_ocr
            /\ idx' = idx + 1
            /\ pc' = pc
    /\ UNCHANGED <<env, fs, fs0, outDirMade, runs, pdf_files, errors, k, tmp,
                   images, writer, pg, report, raised>>

\* one iteration of "for pdf in pdf_files"; _require("pdfplumber") exits the
\* process when the module is missing (SystemExit is no Exception)
ScanDoc ==
    /\ pc = "scan"
    /\ idx <= Len(pdf_files)
    /\ LET pdf == pdf_files[idx] IN
       IF missing = "pdfplumber"
       THEN /\ pc' = "exited"
            /\ UNCHANGED <<idx, needs_ocr, already_ok>>
       ELSE /\ IF has_extractable_text(fs[Src(pdf)], DefaultMinChars)
               THEN already_ok' = Append(already_ok, pdf) /\ needs_ocr' = needs_ocr
               ELSE needs_ocr' = Append(needs_ocr, pdf) /\ already_ok' = already_ok
            /\ idx' = idx + 1
            /\ pc' = pc
    /\ UNCHANGED <<env, fs, fs0, outDirMade, runs, pdf_files, errors, k, tmp,
                   images, writer, pg, report, raised>>

\* AfterScan without the "if dry_run: return"
AfterScanNoDryRun ==
    /\ pc = "scan"
    /\ idx > Len(pdf_files)
    /\ IF needs_ocr = <<>>
       THEN pc' = "done" /\ report' = "nothing_to_do" /\ outDirMade' = outDirMade
       ELSE /\ pc' = "ocr_loop"
            /\ report' = report
            /\ outDirMade' = (outDirMade \/ output_dir # "none")
    /\ UNCHANGED <<env, fs, fs0, runs, pdf_files, idx, needs_ocr, already_ok,
                   errors, k, tmp, images, writer, pg, raised>>

\* after the scan: dry-run return, nothing-to-do return, or mkdir and the OCR loop
AfterScan ==
    /\ pc = "scan"
    /\ idx > Len(pdf_files)
    /\ IF dry_run
       THEN pc' = "done" /\ report' = "dry_run" /\ outDirMade' = outDirMade
       ELSE IF needs_ocr = <<>>
       THEN pc' = "done" /\ report' = "nothing_to_do" /\ outDirMade' = outDirMade
       ELSE /\ pc' = "ocr_loop"
            /\ report' = report
            /\ outDirMade' = (outDirMade \/ output_dir # "none")
    /\ UNCHANGED <<env, fs, fs0, runs, pdf_files, idx, needs_ocr, already_ok,
                   errors, k, tmp, images, writer, pg, raised>>

\* ------------------------------------------------------------------------
\* process_directory: the OCR loop, "for i, pdf in enumerate(needs_ocr, 1)"
\* ------------------------------------------------------------------------
CurPdf == needs_ocr[k]

\* dest = (output_dir / pdf.name) if output_dir else pdf
DestOf(pdf) == IF output_dir = "none" THEN Src(pdf) ELSE <<output_dir, pdf>>
Dest == DestOf(CurPdf)

\* the output_path handed to ocr_pdf: Path(tmp) in place, dest otherwise
OutputPath == IF output_dir = "none" THEN Src(tmp) ELSE Dest

\* the next iteration of the loop
NextDoc ==
    /\ k' = k + 1
    /\ pc' = "ocr_loop"

\* ocr_pdf is left (by return or by exception): its locals are gone
LeaveOcrPdf ==
    /\ images' = <<>>
    /\ writer' = <<>>
    /\ pg' = 1

\* Except without the errors.append
ExceptForgets(msg, page, f) ==
    /\ raised' = raised \cup {<<CurPdf, msg, page>>}
    /\ errors' = errors
    /\ fs' = IF tmp # None /\ Exists(f, Src(tmp))
             THEN [f EXCEPT ![Src(tmp)] = Absent]
             ELSE f
    /\ tmp' = None
    /\ LeaveOcrPdf
    /\ NextDoc

\* except Exception as e: errors.append((pdf, str(e))); the temporary file is
\* unlinked when tmp is set and the file exists.  f is the file system at the
\* moment the exception is raised, page the page being worked on (0: none).
\* (tmp = None is the first statement of the next iteration; nothing reads
\* tmp in between.)
Except(msg, page, f) ==
    /\ raised' = raised \cup {<<CurPdf, msg, page>>}
    /\ errors' = Append(errors, <<CurPdf, msg>>)
    /\ fs' = IF tmp # None /\ Exists(f, Src(tmp))
             THEN [f EXCEPT ![Src(tmp)] = Absent]
             ELSE f
    /\ tmp' = None
    /\ LeaveOcrPdf
    /\ NextDoc

\* tempfile.mkstemp(dir=pdf.parent, suffix=".tmp.pdf"): a name not in use
FreshTmp(f) == CHOOSE t \in TmpNames :
                  /\ ~Exists(f, Src(t))
                  /\ \A u \in TmpNames : ~Exists(f, Src(u)) => t >= u

\* top of the loop body: tmp = None, then mkstemp (in place only)
StartDoc ==
    /\ pc = "ocr_loop"
    /\ k <= Len(needs_ocr)
    /\ IF output_dir = "none"
       THEN /\ \E t \in TmpNames : ~Exists(fs, Src(t))
            /\ tmp' = FreshTmp(fs)
            /\ fs' = [fs EXCEPT ![Src(FreshTmp(fs))] = EmptyFile]
       ELSE /\ tmp' = None
            /\ fs' = fs
    /\ pc' = "ocr_pdf"
    /\ UNCHANGED <<env, fs0, outDirMade, runs, pdf_files, idx, needs_ocr,
                   already_ok, errors, k, images, writer, pg, report, raised>>

\* mkstemp raises OSError: tmp is still None in the handler
MkstempFails ==
    /\ pc = "ocr_loop"
    /\ k <= Len(needs_ocr)
    /\ output_dir = "none"
    /\ Except("mkstemp", 0, fs)
    /\ UNCHANGED <<env, fs0, outDirMade, runs, pdf_files, idx, needs_ocr,
                   already_ok, report>>

\* ------------------------------------------------------------------------
\* ocr_pdf
\* ------------------------------------------------------------------------
\* convert_from_path(str(pdf_path), dpi=dpi): one image per page, in page order
Rasterize(doc) == [i \in 1..Len(doc.pages) |-> doc.pages[i].img]

\* pytesseract.image_to_string(image, lang="ara", ...): the writing on the image
Recognize(image) == image.ink

\* the image page with the text layer merged on it
Composite(image, raw_text) == Page(ExtText(raw_text), image)

\* add_page putting the new page first
AddPageFront(w, page) == <<page>> \o w

\* writer.add_page(img_page)
AddPage(w, page) == Append(w, page)

\* the per-page stages inside the loop
Stages == {"ocr", "shape", "layout", "merge"}

\* _require(...) of a missing module: sys.exit raises SystemExit, which
\* "except Exception" does not catch; the process ends here
OcrPdfExit ==
    /\ pc = "ocr_pdf"
    /\ missing = "pytesseract"
    /\ pc' = "exited"
    /\ UNCHANGED <<env, fs, fs0, outDirMade, runs, pdf_files, idx, needs_ocr,
                   already_ok, errors, k, tmp, images, writer, pg, report, raised>>

\* "from pypdf import PdfWriter, PdfReader" raises ImportError, an Exception
OcrPdfImportError ==
    /\ pc = "ocr_pdf"
    /\ missing = "pypdf"
    /\ Except("import", 0, fs)
    /\ UNCHANGED <<env, fs0, outDirMade, runs, pdf_files, idx, needs_ocr,
                   already_ok, report>>

\* images = convert_from_path(...); writer = PdfWriter()
OcrPdfRasterize ==
    /\ pc = "ocr_pdf"
    /\ missing \notin {"pytesseract", "pypdf"}
    /\ fs[Src(CurPdf)].kind = "pdf"
    /\ images' = Rasterize(fs[Src(CurPdf)])
    /\ writer' = <<>>
    /\ pg' = 1
    /\ pc' = "pages"
    /\ UNCHANGED <<env, fs, fs0, outDirMade, runs, pdf_files, idx, needs_ocr,
                   already_ok, errors, k, tmp, report, raised>>

\* convert_from_path raises (poppler cannot read the file)
OcrPdfRasterizeFails ==
    /\ pc = "ocr_pdf"
    /\ missing \notin {"pytesseract", "pypdf"}
    /\ Except("rasterize", 0, fs)
    /\ UNCHANGED <<env, fs0, outDirMade, runs, pdf_files, idx, needs_ocr,
                   already_ok, report>>

\* one iteration of "for i, image in enumerate(images)"
OcrPage ==
    /\ pc = "pages"
    /\ pg <= Len(images)
    /\ writer' = AddPage(writer, Composite(images[pg], Recognize(images[pg])))
    /\ pg' = pg + 1
    /\ UNCHANGED <<env, fs, fs0, outDirMade, runs, pc, pdf_files, idx, needs_ocr,
                   already_ok, errors, k, tmp, images, report, raised>>

\* OcrPageFails writing out the pages collected so far before it raises
OcrPageFailsFlushing ==
    /\ pc = "pages"
    /\ pg <= Len(images)
    /\ \E stage \in Stages :
          Except(stage, pg, [fs EXCEPT ![OutputPath] = Pdf(TRUE, writer)])
    /\ UNCHANGED <<env, fs0, outDirMade, runs, pdf_files, idx, needs_ocr,
                   already_ok, report>>

\* a stage raises on page pg: the exception leaves ocr_pdf before open()
OcrPageFails ==
    /\ pc = "pages"
    /\ pg <= Len(images)
    /\ \E stage \in Stages : Except(stage, pg, fs)
    /\ UNCHANGED <<env, fs0, outDirMade, runs, pdf_files, idx, needs_ocr,
                   already_ok, report>>

\* after a successful ocr_pdf: in place the replace is next, otherwise "done"
AfterWrite ==
    IF output_dir = "none"
    THEN pc' = "replace" /\ k' = k
    ELSE NextDoc

\* with open(output_path, "wb") as f: writer.write(f)
OcrWrite ==
    /\ pc = "pages"
    /\ pg > Len(images)
    /\ fs' = [fs EXCEPT ![OutputPath] = Pdf(TRUE, writer)]
    /\ LeaveOcrPdf
    /\ AfterWrite
    /\ UNCHANGED <<env, fs0, outDirMade, runs, pdf_files, idx, needs_ocr,
                   already_ok, errors, tmp, report, raised>>

\* open(output_path, "wb") raises: nothing was truncated
OcrOpenFails ==
    /\ pc = "pages"
    /\ pg > Len(images)
    /\ Except("open", 0, fs)
    /\ UNCHANGED <<env, fs0, outDirMade, runs, pdf_files, idx, needs_ocr,
                   already_ok, report>>

\* open truncated the file and writer.write raises after j whole pages
OcrWriteFails ==
    /\ pc = "pages"
    /\ pg > Len(images)
    /\ \E j \in 0..(Len(writer) - 1) :
          Except("write", 0, [fs EXCEPT ![OutputPath] = Partial(SubSeq(writer, 1, j))])
    /\ UNCHANGED <<env, fs0, outDirMade, runs, pdf_files, idx, needs_ocr,
                   already_ok, report>>

\* os.replace(tmp, pdf); tmp = None; print("done")
Replace ==
    /\ pc = "replace"
    /\ fs' = [fs EXCEPT ![Src(CurPdf)] = fs[Src(tmp)], ![Src(tmp)] = Absent]
    /\ tmp' = None
    /\ NextDoc
    /\ UNCHANGED <<env, fs0, outDirMade, runs, pdf_files, idx, needs_ocr,
                   already_ok, errors, images, writer, pg, report, raised>>

\* os.replace raises OSError
ReplaceFails ==
    /\ pc = "replace"
    /\ Except("replace", 0, fs)
    /\ UNCHANGED <<env, fs0, outDirMade, runs, pdf_files, idx, needs_ocr,
                   already_ok, report>>

\* the loop ran out: the final report
Finish ==
    /\ pc = "ocr_loop"
    /\ k > Len(needs_ocr)
    /\ report' = IF errors # <<>> THEN "errors" ELSE "all_done"
    /\ pc' = "done"
    /\ UNCHANGED <<env, fs, fs0, outDirMade, runs, pdf_files, idx, needs_ocr,
                   already_ok, errors, k, tmp, images, writer, pg, raised>>

Next ==
    \/ Start
    \/ ScanDoc
    \/ AfterScan
    \/ StartDoc
    \/ MkstempFails
    \/ OcrPdfExit
    \/ OcrPdfImportError
    \/ OcrPdfRasterize
    \/ OcrPdfRasterizeFails
    \/ OcrPage
    \/ OcrPageFails
    \/ OcrWrite
    \/ OcrOpenFails
    \/ OcrWriteFails
    \/ Replace
    \/ ReplaceFails
    \/ Finish

\* one run of the program on a directory
Spec == Init /\ [][Next]_vars

\* ------------------------------------------------------------------------
\* The program run again on what the run before left on disk
\* ------------------------------------------------------------------------
\* the program is started again on the same directory with the same arguments
Rerun ==
    /\ pc \in {"done", "exited"}
    /\ runs < MaxRuns
    /\ runs' = runs + 1
    /\ fs0' = fs
    /\ outDirMade' = FALSE
    /\ pc' = "start"
    /\ pdf_files' = <<>>
    /\ idx' = 1
    /\ needs_ocr' = <<>>
    /\ already_ok' = <<>>
    /\ errors' = <<>>
    /\ k' = 1
    /\ tmp' = None
    /\ images' = <<>>
    /\ writer' = <<>>
    /\ pg' = 1
    /\ report' = "none"
    /\ raised' = {}
    /\ UNCHANGED <<env, fs>>

NextRerun == Next \/ Rerun

SpecRerun == Init /\ [][NextRerun]_vars

\* ------------------------------------------------------------------------
\* has_extractable_text alone, on every small document and threshold
\* ------------------------------------------------------------------------
MaxTextLen == 2
MaxDetPages == 2

RECURSIVE SeqsUpTo(_, _)
SeqsUpTo(S, n) ==
    IF n = 0 THEN {<<>>}
    ELSE LET shorter == SeqsUpTo(S, n - 1)
         IN  shorter \cup {Append(q, x) : q \in shorter, x \in S}

DetTexts == SeqsUpTo({"a", " "}, MaxTextLen)
DetPages == {Page(e, Image(1, 1, <<>>)) :
                e \in {ExtText(t) : t \in DetTexts} \cup {ExtNone, ExtRaise}}
DetDocs == {Pdf(o, ps) : o \in BOOLEAN, ps \in SeqsUpTo(DetPages, MaxDetPages)}

InitDetect ==
    /\ det_doc \in DetDocs
    /\ det_min_chars \in 0..MaxTextLen
    /\ det_result = "none"
    /\ output_dir = "none"
    /\ dry_run = TRUE
    /\ missing = "nothing"
    /\ fs = [p \in Paths |-> Absent]
    /\ fs0 = fs
    /\ runs = 1
    /\ RunInit
    /\ args_dpi = DefaultDpi
    /\ LayIdle

Detect ==
    /\ det_result = "none"
    /\ det_result' = IF has_extractable_text(det_doc, det_min_chars)
                      THEN "True" ELSE "False"
    /\ UNCHANGED <<output_dir, dry_run, missing, fs, fs0, outDirMade, runs, pc,
                   pdf_files, idx, needs_ocr, already_ok, errors, k, tmp, images,
                   writer, pg, report, raised, det_doc, det_min_chars, layvars>>

NextDetect == Detect

SpecDetect == InitDetect /\ [][NextDetect]_vars

\* ------------------------------------------------------------------------
\* The page loop of ocr_pdf alone: page size and text layout of each page,
\* on every small page text, image size and --dpi.  Lengths in points are
\* exact fractions <<numerator, denominator>>, denominator positive.
\* ------------------------------------------------------------------------
MaxBidiLen == 4
MaxLayPages == 2

\* pt = px * 72 / dpi
PointsPerInch == 72
\* y = pt_h - 12
TopMargin == 12
\* y -= 10
LinePitch == 10
\* if y < 10: break
BottomMargin == 10
\* c.drawString(8, y, line)
LeftMargin == 8

RatMinus(r, n) == <<r[1] - n * r[2], r[2]>>
RatLess(r, n) == r[1] < n * r[2]
RatEq(a, b) == a[1] * b[2] = b[1] * a[2]

\* img_w * 72 / 300 whatever the dpi
PtSizeFixed(px, d) == <<px * PointsPerInch, DefaultDpi>>

\* img_w * 72 / dpi
PtSize(px, d) == <<px * PointsPerInch, d>>

\* the position of the first "\n" of s, Len(s) + 1 when there is none
RECURSIVE FirstNewline(_, _)
FirstNewline(s, j) ==
    IF j > Len(s) \/ s[j] = "\n" THEN j ELSE FirstNewline(s, j + 1)

\* str.splitlines(): the line break ends a line, no empty last line
RECURSIVE SplitLines(_)
SplitLines(s) ==
    IF s = <<>> THEN <<>>
    ELSE LET j == FirstNewline(s, 1)
         IN  <<SubSeq(s, 1, j - 1)>> \o SplitLines(SubSeq(s, j + 1, Len(s)))

\* --dpi values
DpiValues == {72, 150, 300, 600}
\* image.size of the pages the rasterizer returns
ImgSizes == {<<2550, 3300>>, <<100, 80>>, <<80, 60>>}
\* bidi_text of a page
BidiTexts == SeqsUpTo({"a", " ", "\n"}, MaxBidiLen)

runvars == <<fs, fs0, outDirMade, runs, pc, pdf_files, idx, needs_ocr, already_ok,
             errors, k, tmp, images, writer, pg, report, raised>>

InitLayout ==
    /\ args_dpi \in DpiValues
    /\ LayIdle
    /\ output_dir = "none"
    /\ dry_run = FALSE
    /\ missing = "nothing"
    /\ fs = [p \in Paths |-> Absent]
    /\ fs0 = fs
    /\ runs = 1
    /\ RunInit
    /\ det_doc = Absent
    /\ det_min_chars = DefaultMinChars
    /\ det_result = "none"

\* process_directory(dpi = args.dpi) calls ocr_pdf(pdf, ..., dpi=dpi);
\* images = convert_from_path(str(pdf_path), dpi=dpi)
LayOcrPdf ==
    /\ lpc = "idle"
    /\ dpi' = args_dpi
    /\ raster_dpi' = dpi'
    /\ n_images' \in 1..MaxLayPages
    /\ page_i' = 1
    /\ lpc' = "page"
    /\ UNCHANGED <<output_dir, dry_run, missing, detvars, runvars, args_dpi,
                   img_size, pagesize, lines, line_i, cur_y, draws, resolution>>

\* one iteration of "for i, image in enumerate(images)" up to the line loop:
\* OCR and shaping give bidi_text, the canvas is made with the page size in
\* points, lines = bidi_text.splitlines(), y = pt_h - 12
LayBeginPage ==
    /\ lpc = "page"
    /\ page_i <= n_images
    /\ \E size \in ImgSizes, bidi_text \in BidiTexts :
          LET pt_w == PtSize(size[1], dpi)
              pt_h == PtSize(size[2], dpi)
          IN  /\ img_size' = size
              /\ pagesize' = <<pt_w, pt_h>>
              /\ lines' = SplitLines(bidi_text)
              /\ cur_y' = RatMinus(pt_h, TopMargin)
    /\ line_i' = 1
    /\ draws' = <<>>
    /\ lpc' = "lines"
    /\ UNCHANGED <<output_dir, dry_run, missing, detvars, runvars, args_dpi, dpi,
                   raster_dpi, n_images, page_i, resolution>>

\* LayLine with "y -= 10" inside the "if line.strip()"
LayLineNoPitchOnEmpty ==
    /\ lpc = "lines"
    /\ line_i <= Len(lines)
    /\ LET line == lines[line_i]
           y1 == IF Strip(line) # <<>> THEN RatMinus(cur_y, LinePitch) ELSE cur_y
       IN  /\ draws' = IF Strip(line) # <<>>
                       THEN Append(draws, [x |-> LeftMargin, y |-> cur_y, text |-> line])
                       ELSE draws
           /\ cur_y' = y1
           /\ lpc' = IF RatLess(y1, BottomMargin) THEN "broke" ELSE "lines"
    /\ line_i' = line_i + 1
    /\ UNCHANGED <<output_dir, dry_run, missing, detvars, runvars, args_dpi, dpi,
                   raster_dpi, n_images, page_i, img_size, pagesize, lines,
                   resolution>>

\* one iteration of "for line in lines": drawString when the line is not
\* blank, y -= 10, break when y < 10
LayLine ==
    /\ lpc = "lines"
    /\ line_i <= Len(lines)
    /\ LET line == lines[line_i]
           y1 == RatMinus(cur_y, LinePitch)
       IN  /\ draws' = IF Strip(line) # <<>>
                       THEN Append(draws, [x |-> LeftMargin, y |-> cur_y, text |-> line])
                       ELSE draws
           /\ cur_y' = y1
           /\ lpc' = IF RatLess(y1, BottomMargin) THEN "broke" ELSE "lines"
    /\ line_i' = line_i + 1
    /\ UNCHANGED <<output_dir, dry_run, missing, detvars, runvars, args_dpi, dpi,
                   raster_dpi, n_images, page_i, img_size, pagesize, lines,
                   resolution>>

\* the line loop is over (ran out or break): c.save(), and
\* image.save(img_pdf_buf, format="PDF", resolution=dpi)
LaySave ==
    /\ \/ lpc = "broke"
       \/ lpc = "lines" /\ line_i > Len(lines)
    /\ resolution' = dpi
    /\ lpc' = "merge"
    /\ UNCHANGED <<output_dir, dry_run, missing, detvars, runvars, args_dpi, dpi,
                   raster_dpi, n_images, page_i, img_size, pagesize, lines, line_i,
                   cur_y, draws>>

\* merge_page, writer.add_page: the iteration ends, its locals are dead
LayAddPage ==
    /\ lpc = "merge"
    /\ page_i' = page_i + 1
    /\ lpc' = "page"
    /\ img_size' = <<0, 0>>
    /\ pagesize' = <<<<0, 1>>, <<0, 1>>>>
    /\ lines' = <<>>
    /\ line_i' = 1
    /\ cur_y' = <<0, 1>>
    /\ draws' = <<>>
    /\ resolution' = 0
    /\ UNCHANGED <<output_dir, dry_run, missing, detvars, runvars, args_dpi, dpi,
                   raster_dpi, n_images>>

\* the page loop ran out: writer.write(f)
LayReturn ==
    /\ lpc = "page"
    /\ page_i > n_images
    /\ lpc' = "end"
    /\ UNCHANGED <<output_dir, dry_run, missing, detvars, runvars, args_dpi, dpi,
                   raster_dpi, n_images, page_i, img_size, pagesize, lines, line_i,
                   cur_y, draws, resolution>>

NextLayout ==
    \/ LayOcrPdf
    \/ LayBeginPage
    \/ LayLine
    \/ LaySave
    \/ LayAddPage
    \/ LayReturn

SpecLayout == InitLayout /\ [][NextLayout]_vars

\* ------------------------------------------------------------------------
\* Properties
\* ------------------------------------------------------------------------
ErrorDocs == {errors[i][1] : i \in 1..Len(errors)}

\* the documents the OCR loop is through with
Handled == {needs_ocr[i] : i \in 1..(k - 1)}

\* the complete output for a source document: every page, in order, as the
\* composite of its image
ExpectedOutput(doc) ==
    Pdf(TRUE, [i \in 1..Len(doc.pages) |->
                 Composite(doc.pages[i].img, Recognize(doc.pages[i].img))])

\* the OCR loop of this run was entered
LoopEntered == idx > Len(pdf_files) /\ ~dry_run /\ needs_ocr # <<>>

\* C1: in in-place mode, once process_directory has stopped handling a
\* document (it is between documents, has returned, or the process has ended),
\* no temporary file made in this run is left and every document whose
\* handling failed, by an exception or by a missing-dependency exit, holds
\* what it held when the run started.
C1_TmpRemovedOriginalUntouched ==
    (output_dir = "none" /\ pc \in {"ocr_loop", "done", "exited"}) =>
        /\ \A t \in TmpNames : Exists(fs, Src(t)) => Exists(fs0, Src(t))
        /\ \A r \in raised : fs[Src(r[1])] = fs0[Src(r[1])]
        /\ (pc = "exited" /\ LoopEntered) => fs[Src(CurPdf)] = fs0[Src(CurPdf)]

\* C2: in every mode, the destination of a document the loop is through with
\* holds either the complete output (all pages) or exactly what it held
\* before the run; never a truncated or partial file.
C2_NoPartialDestination ==
    \A n \in Handled :
        \/ fs[DestOf(n)] = fs0[DestOf(n)]
        \/ fs[DestOf(n)] = ExpectedOutput(fs0[Src(n)])

\* C3: when a stage has raised on some page of a document, the document is
\* recorded in errors, nothing has been written to its destination, and its
\* original on disk is as it was when the run started.
C3_StageFailureFailsDocument ==
    \A r \in raised :
        r[2] \in Stages =>
            /\ r[1] \in ErrorDocs
            /\ fs[DestOf(r[1])] = fs0[DestOf(r[1])]
            /\ fs[Src(r[1])] = fs0[Src(r[1])]

\* an OCR failure on the second page of a document, the run finished
C3_Witness ==
    /\ pc = "done"
    /\ \E r \in raised :
          r[2] = "ocr" /\ r[3] = 2 /\ Len(fs0[Src(r[1])].pages) >= 2

\* the detector finds a text layer in the file named n
HasTextLayer(n) ==
    Exists(fs, Src(n)) /\ has_extractable_text(fs[Src(n)], DefaultMinChars)

\* C4: no step of the program changes a document the detector has reported as
\* having text, and none hands it to ocr_pdf; and no step of any run changes
\* a document in which the detector finds text, so that it stays as it is
\* however often the program is run.
C4_TextDocumentsUntouched ==
    [][/\ \A n \in Range(already_ok) :
             /\ fs'[Src(n)] = fs[Src(n)]
             /\ ~(pc' \in {"ocr_pdf", "pages", "replace"} /\ needs_ocr'[k'] = n)
       /\ \A n \in DocNames :
             HasTextLayer(n) =>
                 /\ fs'[Src(n)] = fs[Src(n)]
                 /\ ~(pc' \in {"ocr_pdf", "pages", "replace"} /\ needs_ocr'[k'] = n)
      ]_vars

\* a second run has gone through its OCR loop, working on some document,
\* with a document reported as having text in the same directory
C4_Witness ==
    /\ runs = 2
    /\ pc = "done"
    /\ report \in {"errors", "all_done"}
    /\ already_ok # <<>>
    /\ fs # fs0

\* the length of what extract_text returns on a page, trimmed
TrimmedLen(page) == IF page.ext.kind = "text" THEN Len(Strip(page.ext.s)) ELSE 0

\* C5: has_extractable_text returns True if and only if some page's extracted
\* text, trimmed, has at least min_chars characters (None counting as 0).
C5_TrueIffSomePageReaches ==
    det_result # "none" =>
        (det_result = "True" <=>
            /\ det_doc.openable
            /\ \E i \in 1..Len(det_doc.pages) :
                  /\ det_doc.pages[i].ext.kind # "raise"
                  /\ TrimmedLen(det_doc.pages[i]) >= det_min_chars)

\* C6: a document with a page on which extraction raises and a later page
\* reaching min_chars is reported as having text.
C6_BadPageDoesNotAbort ==
    (/\ det_result # "none"
     /\ det_doc.openable
     /\ \E j, i \in 1..Len(det_doc.pages) :
           /\ j < i
           /\ det_doc.pages[j].ext.kind = "raise"
           /\ det_doc.pages[i].ext.kind = "text"
           /\ TrimmedLen(det_doc.pages[i]) >= det_min_chars)
        => det_result = "True"

\* C7: a scanned document whose container cannot be opened is recorded in
\* errors and is not classified as needing OCR.
C7_UnreadableIsReported ==
    \A i \in 1..(idx - 1) :
        ~fs0[Src(pdf_files[i])].openable =>
            /\ pdf_files[i] \notin Range(needs_ocr)
            /\ pdf_files[i] \in ErrorDocs

\* C8: a step in which ocr_pdf returns normally leaves at output_path a
\* document with one page per rasterized image, page i being the composite
\* of image i.
C8_PagesMatchImages ==
    [][(pc = "pages" /\ pc' # "pages" /\ errors' = errors) =>
          LET out == fs'[OutputPath] IN
              /\ out.kind = "pdf"
              /\ Len(out.pages) = Len(images)
              /\ \A i \in 1..Len(images) :
                    out.pages[i] = Composite(images[i], Recognize(images[i]))
      ]_vars

\* a document of two pages or more written whole to the output directory
C8_Witness ==
    /\ output_dir = "out"
    /\ \E n \in Handled :
          /\ Len(fs0[Src(n)].pages) >= 2
          /\ fs[DestOf(n)] = ExpectedOutput(fs0[Src(n)])

\* C9: a run that entered the OCR loop ends only by returning, after every
\* document needing OCR was attempted, with every document whose handling
\* failed in the error list.
C9_BatchContinuesPastFailure ==
    (pc \in {"done", "exited"} /\ LoopEntered) =>
        /\ pc = "done"
        /\ k > Len(needs_ocr)
        /\ \A r \in raised : r[1] \in ErrorDocs

\* C10: with an output directory given, whatever it resolves to, every file of
\* the scanned directory holds what it held when the run started.
C10_SourcesUntouched ==
    output_dir # "none" => \A n \in Names : fs[Src(n)] = fs0[Src(n)]

\* C11: with dry_run set the run never enters the OCR loop: no document is
\* rasterized or OCR'd, no temporary file and no output directory is made,
\* and every file is as it was when the run started.
C11_DryRunOnlyDetects ==
    dry_run =>
        /\ pc \in {"start", "scan", "done", "exited"}
        /\ fs = fs0
        /\ ~outDirMade
        /\ tmp = None
        /\ images = <<>>
        /\ writer = <<>>
        /\ errors = <<>>

\* a dry run has returned after finding both kinds of document
C11_Witness ==
    /\ dry_run
    /\ pc = "done"
    /\ report = "dry_run"
    /\ needs_ocr # <<>>
    /\ already_ok # <<>>
    /\ output_dir = "out"

\* C12: after a non-dry run with an output directory other than the scanned
\* one, every document reported as having text has a copy of itself under
\* its name in the output directory.
C12_PassThroughCopied ==
    (output_dir = "out" /\ ~dry_run /\ pc = "done") =>
        \A n \in Range(already_ok) : fs[<<"out", n>>] = fs0[Src(n)]

\* C16: once the scan is over every discovered file is in exactly one of
\* already_ok and needs_ocr, or in errors; when a run that is no dry run
\* returns, a file in already_ok is untouched and not in errors, a file in
\* needs_ocr is either in errors or has its complete output at its
\* destination, and "all done" is reported only with errors empty.
C16_OneOutcomePerDocument ==
    /\ (pc \notin {"start", "scan", "exited"} \/ (pc = "scan" /\ idx > Len(pdf_files))) =>
          /\ Range(pdf_files) = Range(already_ok) \cup Range(needs_ocr) \cup ErrorDocs
          /\ Range(already_ok) \cap Range(needs_ocr) = {}
          /\ Len(already_ok) + Len(needs_ocr) = Len(pdf_files)
    /\ (pc = "done" /\ ~dry_run) =>
          /\ \A n \in Range(already_ok) :
                n \notin ErrorDocs /\ fs[Src(n)] = fs0[Src(n)]
          /\ \A n \in Range(needs_ocr) :
                (n \notin ErrorDocs) <=> (n \notin {r[1] : r \in raised})
          /\ \A n \in Range(needs_ocr) :
                n \notin ErrorDocs => fs[DestOf(n)] = ExpectedOutput(fs0[Src(n)])
          /\ \A i, j \in 1..Len(errors) : errors[i][1] = errors[j][1] => i = j
          /\ report = "all_done" => errors = <<>>
          /\ report = "errors" => errors # <<>>

\* a run has returned with one document processed and another one failed
C16_Witness ==
    /\ pc = "done"
    /\ ~dry_run
    /\ report = "errors"
    /\ \E n \in Range(needs_ocr) :
          n \notin ErrorDocs /\ fs[DestOf(n)] = ExpectedOutput(fs0[Src(n)])

\* y of the i-th line of a page (i counted from 0): pageHeight - 12 - 10*i
LineY(i) == <<img_size[2] * 72 - (12 + 10 * i) * args_dpi, args_dpi>>

\* the 0-based indices below n of the lines that are not blank, in order
RECURSIVE InkedBelow(_)
InkedBelow(n) ==
    IF n = 0 THEN <<>>
    ELSE IF Strip(lines[n]) # <<>> THEN Append(InkedBelow(n - 1), n - 1)
         ELSE InkedBelow(n - 1)

\* C13: on every page, while and after its lines are laid out, the cursor
\* is at pageHeight - 12 - 10*i for the next line i, and the draws made so
\* far are exactly one per non-blank line handled, in line order, the draw of
\* line i at (8, pageHeight - 12 - 10*i) with that line's text; a blank line
\* has no draw and still moves the cursor by one pitch.
C13_LinePositions ==
    lpc \in {"lines", "broke", "merge"} =>
        LET done == line_i - 1
            inked == InkedBelow(done)
        IN  /\ RatEq(cur_y, LineY(done))
            /\ Len(draws) = Len(inked)
            /\ \A j \in 1..Len(draws) :
                  /\ draws[j].x = 8
                  /\ RatEq(draws[j].y, LineY(inked[j]))
                  /\ draws[j].text = lines[inked[j] + 1]

\* on the second page of a document a blank line was passed and the line
\* after it drawn
C13_Witness ==
    /\ page_i = 2
    /\ lpc \in {"lines", "broke"}
    /\ line_i = 3
    /\ Strip(lines[1]) = <<>>
    /\ Len(draws) = 1
    /\ RatEq(draws[1].y, LineY(1))

\* C14: on every page, short ones included, no draw is at a y below the
\* bottom margin of 10pt.
C14_NoDrawBelowBottomMargin ==
    \A j \in 1..Len(draws) : ~RatLess(draws[j].y, 10)

\* C15: the overlay page is (pixelWidth*72/dpi, pixelHeight*72/dpi) for the
\* configured dpi, which is the dpi the rasterizer was called with and the
\* resolution the image page is saved with; a 2550x3300 image at 300 dpi
\* gives 612x792pt and a first line drawn at y = 780.
C15_OverlaySizeFromDpi ==
    /\ lpc # "idle" => dpi = args_dpi /\ raster_dpi = args_dpi
    /\ lpc \in {"lines", "broke", "merge"} =>
          /\ RatEq(pagesize[1], <<img_size[1] * 72, args_dpi>>)
          /\ RatEq(pagesize[2], <<img_size[2] * 72, args_dpi>>)
          /\ (img_size = <<2550, 3300>> /\ args_dpi = 300) =>
                /\ RatEq(pagesize[1], <<612, 1>>)
                /\ RatEq(pagesize[2], <<792, 1>>)
                /\ (line_i > 1 /\ Strip(lines[1]) # <<>>) =>
                      RatEq(draws[1].y, <<780, 1>>)
    /\ lpc = "merge" => resolution = args_dpi

\* a 2550x3300 page rasterized at 300 dpi whose first line was drawn
C15_Witness ==
    /\ lpc = "merge"
    /\ img_size = <<2550, 3300>>
    /\ args_dpi = 300
    /\ resolution = 300
    /\ draws # <<>>
    /\ Strip(lines[1]) # <<>>

====
